---- MODULE Spec2Model ----
(***************************************************************************)
(* Cold-mail generator: the retrieval-augmented orchestration of           *)
(* app/main.py (EmailGenerator), app/portfolio.py (Portfolio) and          *)
(* app/chains.py (Chain).                                                   *)
(*                                                                         *)
(* Python strings that the code trims or tests for blankness are modelled  *)
(* as sequences of one-character strings.  The external collaborators (web *)
(* loader, LLM, Chroma collection) are the environment: each call's        *)
(* outcome is drawn with \E from the outcomes the collaborator can give,   *)
(* a raised exception included.  Every collaborator call of the running    *)
(* process_url invocation (or of the last direct store call) is appended   *)
(* to the log `calls`.                                                      *)
(***************************************************************************)
EXTENDS Integers, Sequences, FiniteSets, TLC

\* ------------------------------------------------------------------ bounds
\* Longest job list the LLM extraction returns.
MaxJobs == 2

\* ------------------------------------------------------- program constants
\* Portfolio.query_links(skills, n_results = 2)
DEFAULT_N_RESULTS == 2

\* ----------------------------------------------------------------- strings
RECURSIVE LStrip(_)
LStrip(s) == IF s # <<>> /\ Head(s) = " " THEN LStrip(Tail(s)) ELSE s

RECURSIVE RStrip(_)
RStrip(s) ==
    IF s # <<>> /\ s[Len(s)] = " " THEN RStrip(SubSeq(s, 1, Len(s) - 1)) ELSE s

\* str.strip()
Strip(s) == RStrip(LStrip(s))

LowerChar(c) == CASE c = "N" -> "n" [] c = "A" -> "a" [] OTHER -> c

\* str.lower()
Lower(s) == [i \in 1..Len(s) |-> LowerChar(s[i])]

\* Python truthiness of a string or list: `not x` is x = <<>>
IsBlank(s) == s = <<>> \/ Strip(s) = <<>>

\* -------------------------------------------------------------- exceptions
Exc(type, msg) == [type |-> type, msg |-> msg]

Ok(v) == [ok |-> TRUE, val |-> v, err |-> Exc("", ""), calls |-> <<>>]

Raise(e) == [ok |-> FALSE, val |-> <<>>, err |-> e, calls |-> <<>>]

\* One collaborator call in the log: idx is the 1-based job the call serves
\* (0 outside the per-job loop).
\* res is "raise" or "return"; val is the value returned, where the model
\* needs it.  A method of Chain or Portfolio called by EmailGenerator is logged
\* as well, before the collaborator calls it makes.
CallV(op, idx, arg, res, val) ==
    [op |-> op, idx |-> idx, arg |-> arg, res |-> res, val |-> val]

Call(op, idx, arg, res) == CallV(op, idx, arg, res, <<>>)

\* The result r of a method call, with the call itself put first in r.calls.
Logged(op, idx, arg, r) ==
    [r EXCEPT !.calls =
        <<CallV(op, idx, arg, IF r.ok THEN "return" ELSE "raise",
                IF r.ok THEN r.val ELSE <<>>)>> \o r.calls]

\* ------------------------------------------------- utils.clean_text (spec)
\* TextCleaner.clean: drops special characters, collapses runs of
\* whitespace and trims.
RemoveSpecial(s) == SelectSeq(s, LAMBDA c : c # "!")

RECURSIVE CollapseSpaces(_)
CollapseSpaces(s) ==
    IF Len(s) < 2 THEN s
    ELSE IF s[1] = " " /\ s[2] = " " THEN CollapseSpaces(Tail(s))
    ELSE <<s[1]>> \o CollapseSpaces(Tail(s))

clean_text(raw) == Strip(CollapseSpaces(RemoveSpecial(raw)))

\* ------------------------------------------------ EmailGenerator: fetching
Urls == { <<>>, <<" ">>, <<"h">>, <<" ", "h">> }

PageContents == { <<>>, <<" ">>, <<"!", " ">>, <<"a">>, <<"a", "!", " ">> }

\* What WebBaseLoader([url]).load() can do: raise, or return a list of
\* documents (possibly empty); documents[0].page_content is the page text.
LoaderOutcomes ==
    { [raises |-> TRUE, docs |-> <<>>] }
        \cup { [raises |-> FALSE, docs |-> <<>>] }
        \cup { [raises |-> FALSE, docs |-> <<p>>] : p \in PageContents }

validate_url(u) ==
    IF u = <<>> \/ Strip(u) = <<>>
    THEN Raise(Exc("ValueError", "URL cannot be empty"))
    ELSE Ok(<<>>)

load_documents(u, lo) ==
    LET c == <<CallV("loader.load", 0, u, IF lo.raises THEN "raise" ELSE "return",
                     lo.docs)>>
    IN  IF lo.raises
        THEN [Raise(Exc("Exception", "loader error")) EXCEPT !.calls = c]
        ELSE IF lo.docs = <<>>
        THEN [Raise(Exc("ValueError", "No content could be loaded from the URL"))
                 EXCEPT !.calls = c]
        ELSE [Ok(lo.docs) EXCEPT !.calls = c]

\* load_web_content with the URL validation moved inside the try block: its
\* ValueError is wrapped like any other failure.
load_web_content_ValidateInsideTry(u, lo) ==
    LET v == validate_url(u)
    IN  IF ~v.ok THEN Raise(Exc("ConnectionError", v.err.msg))
        ELSE LET d == load_documents(u, lo)
             IN  IF ~d.ok
                 THEN [Raise(Exc("ConnectionError", d.err.msg)) EXCEPT !.calls = d.calls]
                 ELSE [Ok(clean_text(d.val[1])) EXCEPT !.calls = d.calls]

load_web_content(u, lo) ==
    LET v == validate_url(u)
    IN  IF ~v.ok THEN v
        ELSE LET d == load_documents(u, lo)
             IN  IF ~d.ok
                 THEN [Raise(Exc("ConnectionError", d.err.msg)) EXCEPT !.calls = d.calls]
                 ELSE [Ok(clean_text(d.val[1])) EXCEPT !.calls = d.calls]

\* ------------------------------------------------------------------- Chain
EmptyList == [type |-> "list", val |-> <<>>]

ListOf(items) == [type |-> "list", val |-> items]

\* A JSON value that is a string where a list is expected ("skills": "p")
StrOf(chars) == [type |-> "str", val |-> chars]

\* A job dictionary: `keys` are the keys present; a field outside `keys` is
\* absent from the dictionary whatever the record holds for it.
EmptyDict == [keys |-> {}, role |-> "", skills |-> EmptyList]

NoSkillsJob == [keys |-> {"role"}, role |-> "dev", skills |-> EmptyList]

JobWith(sk) == [keys |-> {"role", "skills"}, role |-> "dev", skills |-> sk]

JobSkills ==
    { EmptyList, ListOf(<< <<" ">> >>), ListOf(<< <<>>, <<" ", "p">> >>),
      ListOf(<< <<"p">>, <<"q", " ">> >>), StrOf(<<"p">>) }

\* The job dictionaries the extraction yields in the model: the empty
\* dictionary, a job without "skills", and jobs whose skills are blank-only, a
\* list with a usable skill, and a string.
Jobs ==
    { EmptyDict, NoSkillsJob, JobWith(ListOf(<< <<" ">> >>)),
      JobWith(ListOf(<< <<>>, <<" ", "p">> >>)), JobWith(StrOf(<<"p">>)) }

\* job.get("skills", [])
JobGetSkills(job) == IF "skills" \in job.keys THEN job.skills ELSE EmptyList

JobLists == UNION { [1..n -> Jobs] : n \in 0..MaxJobs }

\* The LLM's answer to the extraction prompt, as JsonOutputParser sees it:
\* text that is not JSON, a JSON array, or a single JSON object.
JsonList(items) == [kind |-> "list", items |-> items, obj |-> EmptyDict]

JsonObject(o) == [kind |-> "dict", items |-> <<>>, obj |-> o]

NotJson == [kind |-> "invalid", items |-> <<>>, obj |-> EmptyDict]

ExtractOutcomes ==
    { [raises |-> TRUE, content |-> NotJson] }
        \cup { [raises |-> FALSE, content |-> NotJson] }
        \cup { [raises |-> FALSE, content |-> JsonList(js)] : js \in JobLists }
        \cup { [raises |-> FALSE, content |-> JsonObject(j)] : j \in Jobs }

\* _parse_json_response that answers a parse failure with the empty list.
parse_json_response_EmptyOnFailure(response_content) ==
    IF response_content.kind = "invalid"
    THEN Ok(<<>>)
    ELSE IF response_content.kind = "list"
    THEN Ok(response_content.items)
    ELSE Ok(<<response_content.obj>>)

parse_json_response(response_content) ==
    IF response_content.kind = "invalid"
    THEN Raise(Exc("OutputParserException", "Context too big. Unable to parse jobs."))
    ELSE IF response_content.kind = "list"
    THEN Ok(response_content.items)
    ELSE Ok(<<response_content.obj>>)

extract_jobs(cleaned_text, lo) ==
    IF cleaned_text = <<>> \/ Strip(cleaned_text) = <<>>
    THEN Raise(Exc("ValueError", "Cleaned text cannot be empty"))
    ELSE LET c == <<CallV("llm.invoke", 0, cleaned_text,
                          IF lo.raises THEN "raise" ELSE "return",
                          IF lo.raises THEN <<>> ELSE <<lo.content.kind>>)>>
         IN  IF lo.raises
             THEN [Raise(Exc("Exception", "llm error")) EXCEPT !.calls = c]
             ELSE [parse_json_response(lo.content) EXCEPT !.calls = c]

EmailTexts == { "mailA", "mailB" }

WriteOutcomes ==
    { [raises |-> TRUE, text |-> ""] }
        \cup { [raises |-> FALSE, text |-> t] : t \in EmailTexts }

write_mail(job, links, idx, wo) ==
    IF job.keys = {}
    THEN Raise(Exc("ValueError", "Job dictionary cannot be empty"))
    ELSE LET c == <<Call("llm.invoke", idx, [job |-> job, links |-> links],
                         IF wo.raises THEN "raise" ELSE "return")>>
         IN  IF wo.raises
             THEN [Raise(Exc("Exception", "llm error")) EXCEPT !.calls = c]
             ELSE [Ok(<<wo.text>>) EXCEPT !.calls = c]

\* --------------------------------------------------------------- Portfolio
\* A row of the portfolio CSV as str(row["Techstack"]), str(row["Links"]):
\* pandas renders a missing cell as "nan".
Row(t, l) == [Techstack |-> t, Links |-> l]

Datasets ==
    { << Row(<<"p">>, <<"x">>), Row(<<" ", "j">>, <<"y", " ">>) >>,
      << Row(<<"n", "a", "n">>, <<"x">>), Row(<<"p">>, <<"y">>) >>,
      << Row(<<" ">>, <<"x">>), Row(<<"N", "A", "N">>, <<"y">>) >>,
      << Row(<<"q", " ">>, <<"n", "a", "n">>) >> }

\* The row is indexed: its trimmed Techstack is neither empty nor "nan".
ValidRow(row) ==
    LET techstack == Strip(row.Techstack)
    IN  ~(techstack = <<>> \/ Lower(techstack) = <<"n", "a", "n">>)

RECURSIVE CountValid(_)
CountValid(rows) ==
    IF rows = <<>> THEN 0
    ELSE (IF ValidRow(Head(rows)) THEN 1 ELSE 0) + CountValid(Tail(rows))

\* The environment of one load_portfolio call: whether collection.count()
\* raises (at its first call, or at the second one made for the log line),
\* and for which rows collection.add() raises.
LoadEnvs(rows) ==
    [count : {"ok", "raise", "raise2"}, add_fails : SUBSET (1..Len(rows))]

\* Returns [added, coll, calls].  The record's id is a fresh uuid4, unique by
\* construction; the model identifies a record with its position.
add_item_to_collection(coll, row, i, fails) ==
    LET techstack == Strip(row.Techstack)
        links     == Strip(row.Links)
    IN  IF techstack = <<>> \/ Lower(techstack) = <<"n", "a", "n">>
        THEN [added |-> FALSE, coll |-> coll, calls |-> <<>>]
        ELSE IF fails
        THEN [added |-> FALSE, coll |-> coll,
              calls |-> <<Call("collection.add", 0, i, "raise")>>]
        ELSE [added |-> TRUE,
              coll  |-> Append(coll, [document |-> techstack, links |-> links]),
              calls |-> <<Call("collection.add", 0, i, "return")>>]

\* for _, row in self.data.iterrows(): rows i..Len(rows)
RECURSIVE AddRows(_, _, _, _)
AddRows(coll, rows, i, add_fails) ==
    IF i > Len(rows) THEN [coll |-> coll, calls |-> <<>>, items_added |-> 0]
    ELSE LET a    == add_item_to_collection(coll, rows[i], i, i \in add_fails)
             rest == AddRows(a.coll, rows, i + 1, add_fails)
         IN  [coll        |-> rest.coll,
              calls       |-> a.calls \o rest.calls,
              items_added |-> (IF a.added THEN 1 ELSE 0) + rest.items_added]

\* load_portfolio without the count() > 0 guard: it inserts on every call.
load_portfolio_NoGuard(coll, rows, env) ==
    LET count1 == Call("collection.count", 0, <<>>,
                       IF env.count = "raise" THEN "raise" ELSE "return")
    IN  IF env.count = "raise"
        THEN [ok |-> FALSE, val |-> <<>>, err |-> Exc("Exception", "count error"),
              coll |-> coll, calls |-> <<count1>>]
        ELSE LET r == AddRows(coll, rows, 1, env.add_fails)
             IN  [ok |-> TRUE, val |-> <<>>, err |-> Exc("", ""),
                  coll |-> r.coll, calls |-> <<count1>> \o r.calls]

\* load_portfolio over an _add_item_to_collection that lets the insert error
\* out: the first failing insert ends the load with that error.
load_portfolio_InsertErrorRaises(coll, rows, env) ==
    LET count1 == Call("collection.count", 0, <<>>,
                       IF env.count = "raise" THEN "raise" ELSE "return")
    IN  IF env.count = "raise"
        THEN [ok |-> FALSE, val |-> <<>>, err |-> Exc("Exception", "count error"),
              coll |-> coll, calls |-> <<count1>>]
        ELSE IF Len(coll) > 0
        THEN [ok |-> TRUE, val |-> <<>>, err |-> Exc("", ""), coll |-> coll,
              calls |-> <<count1, count1>>]
        ELSE LET r == AddRows(coll, rows, 1, env.add_fails)
                 failed == \E k \in DOMAIN r.calls : r.calls[k].res = "raise"
             IN  [ok |-> ~failed, val |-> <<>>,
                  err |-> IF failed THEN Exc("Exception", "add error") ELSE Exc("", ""),
                  coll |-> r.coll, calls |-> <<count1>> \o r.calls]

\* Returns [ok, val, err, coll, calls]: coll is the collection after the call.
load_portfolio(coll, rows, env) ==
    LET count1 == Call("collection.count", 0, <<>>,
                       IF env.count = "raise" THEN "raise" ELSE "return")
        count2 == Call("collection.count", 0, <<>>,
                       IF env.count = "raise2" THEN "raise" ELSE "return")
    IN  IF env.count = "raise"
        THEN [ok |-> FALSE, val |-> <<>>, err |-> Exc("Exception", "count error"),
              coll |-> coll, calls |-> <<count1>>]
        ELSE IF Len(coll) > 0
        THEN [ok    |-> env.count # "raise2",
              val   |-> <<>>,
              err   |-> IF env.count = "raise2"
                        THEN Exc("Exception", "count error") ELSE Exc("", ""),
              coll  |-> coll,
              calls |-> <<count1, count2>>]
        ELSE LET r == AddRows(coll, rows, 1, env.add_fails)
             IN  [ok |-> TRUE, val |-> <<>>, err |-> Exc("", ""),
                  coll |-> r.coll, calls |-> <<count1>> \o r.calls]

\* The list comprehension with the filter `if s` only: whitespace-only
\* strings pass and are trimmed to the empty string.
RECURSIVE ValidSkills_TruthyOnly(_)
ValidSkills_TruthyOnly(skills) ==
    IF skills = <<>> THEN <<>>
    ELSE LET s == Head(skills)
         IN  (IF s # <<>> THEN <<Strip(s)>> ELSE <<>>)
                 \o ValidSkills_TruthyOnly(Tail(skills))

\* [s.strip() for s in skills if s and s.strip()]
RECURSIVE ValidSkills(_)
ValidSkills(skills) ==
    IF skills = <<>> THEN <<>>
    ELSE LET s == Head(skills)
         IN  (IF s # <<>> /\ Strip(s) # <<>> THEN <<Strip(s)>> ELSE <<>>)
                 \o ValidSkills(Tail(skills))

\* collection.query(query_texts, n_results)["metadatas"]: one list per query
\* text, of at most n_results metadata objects.  Which records are nearest is
\* the index's business; the model returns the first ones.
IndexQuery(coll, query_texts, n_results) ==
    LET k == IF Len(coll) < n_results THEN Len(coll) ELSE n_results
    IN  [q \in 1..Len(query_texts) |-> [j \in 1..k |-> [links |-> coll[j].links]]]

\* query_links without the except branch: an index failure is raised.
query_links_Propagates(coll, skills, n_results, idx, q_raises) ==
    IF skills.val = <<>> \/ skills.type # "list"
    THEN Raise(Exc("ValueError", "Skills must be a non-empty list"))
    ELSE LET valid_skills == ValidSkills(skills.val)
         IN  IF valid_skills = <<>>
             THEN Ok(<<>>)
             ELSE IF q_raises
             THEN [Raise(Exc("Exception", "query error")) EXCEPT
                      !.calls = <<Call("collection.query", idx, valid_skills, "raise")>>]
             ELSE [Ok(IndexQuery(coll, valid_skills, n_results)) EXCEPT
                      !.calls = <<Call("collection.query", idx, valid_skills, "return")>>]

\* Returns [ok, val, err, calls]; q_raises: collection.query raises.
query_links(coll, skills, n_results, idx, q_raises) ==
    IF skills.val = <<>> \/ skills.type # "list"
    THEN Raise(Exc("ValueError", "Skills must be a non-empty list"))
    ELSE LET valid_skills == ValidSkills(skills.val)
         IN  IF valid_skills = <<>>
             THEN Ok(<<>>)
             ELSE IF q_raises
             THEN [Ok(<<>>) EXCEPT
                      !.calls = <<Call("collection.query", idx, valid_skills, "raise")>>]
             ELSE [Ok(IndexQuery(coll, valid_skills, n_results)) EXCEPT
                      !.calls = <<Call("collection.query", idx, valid_skills, "return")>>]

\* Returns [ok, val, err, coll, calls].
clear_portfolio(coll, raises) ==
    IF raises
    THEN [ok |-> FALSE, val |-> <<>>, err |-> Exc("Exception", "delete error"), coll |-> coll,
          calls |-> <<Call("client.delete_collection", 0, <<>>, "raise")>>]
    ELSE [ok |-> TRUE, val |-> <<>>, err |-> Exc("", ""), coll |-> <<>>,
          calls |-> <<Call("client.delete_collection", 0, <<>>, "return"),
                      Call("client.get_or_create_collection", 0, <<>>, "return")>>]

\* ------------------------------------------- EmailGenerator: generation
\* f"Error generating email: {str(e)}"
Placeholder(e) == <<"Error generating email: ", e.msg>>

\* Returns [ok, err, loaded, coll, calls].
ensure_portfolio_loaded(loaded, coll, rows, env) ==
    IF loaded
    THEN [ok |-> TRUE, err |-> Exc("", ""), loaded |-> TRUE, coll |-> coll,
          calls |-> <<>>]
    ELSE LET r == Logged("portfolio.load_portfolio", 0, <<>>,
                         load_portfolio(coll, rows, env))
         IN  [ok |-> r.ok, err |-> r.err, loaded |-> r.ok, coll |-> r.coll,
              calls |-> r.calls]

\* generate_single_email that calls write_mail a second time when the first
\* call raised (one retry).
generate_single_email_RetryWrite(coll, job, idx, q_raises, wo) ==
    LET skills == JobGetSkills(job)
        links  == Logged("portfolio.query_links", idx, skills,
                         query_links(coll, skills, DEFAULT_N_RESULTS, idx, q_raises))
    IN  IF ~links.ok
        THEN [val |-> Placeholder(links.err), calls |-> links.calls]
        ELSE LET email == Logged("chain.write_mail", idx,
                                 [job |-> job, links |-> links.val],
                                 write_mail(job, links.val, idx, wo))
             IN  IF email.ok
                 THEN [val |-> email.val, calls |-> links.calls \o email.calls]
                 ELSE [val   |-> Placeholder(email.err),
                       calls |-> links.calls \o email.calls \o email.calls]

\* generate_single_email with an except branch that returns the empty string.
generate_single_email_EmptyOnFailure(coll, job, idx, q_raises, wo) ==
    LET skills == JobGetSkills(job)
        links  == Logged("portfolio.query_links", idx, skills,
                         query_links(coll, skills, DEFAULT_N_RESULTS, idx, q_raises))
    IN  IF ~links.ok
        THEN [val |-> <<>>, calls |-> links.calls]
        ELSE LET email == Logged("chain.write_mail", idx,
                                 [job |-> job, links |-> links.val],
                                 write_mail(job, links.val, idx, wo))
             IN  [val   |-> IF email.ok THEN email.val ELSE <<>>,
                  calls |-> links.calls \o email.calls]

\* Returns [val, calls]: the output string for the job and the calls made.
generate_single_email(coll, job, idx, q_raises, wo) ==
    LET skills == JobGetSkills(job)
        links  == Logged("portfolio.query_links", idx, skills,
                         query_links(coll, skills, DEFAULT_N_RESULTS, idx, q_raises))
    IN  IF ~links.ok
        THEN [val |-> Placeholder(links.err), calls |-> links.calls]
        ELSE LET email == Logged("chain.write_mail", idx,
                                 [job |-> job, links |-> links.val],
                                 write_mail(job, links.val, idx, wo))
             IN  [val   |-> IF email.ok THEN email.val ELSE Placeholder(email.err),
                  calls |-> links.calls \o email.calls]

\* ------------------------------------------------------------------- state
VARIABLES
    data,              \* Portfolio.data: the rows read from the CSV
    collection,        \* the Chroma collection: its records, in insert order
    portfolio_loaded,  \* EmailGenerator._portfolio_loaded
    pc,                \* where the process_url invocation stands
    url,               \* process_url's argument
    content,           \* load_web_content's result
    jobs,              \* extract_jobs' result
    emails,            \* the outputs produced so far, one per job
    error,             \* the exception process_url raised
    calls,             \* the calls of this invocation / direct store call
    store_op,          \* the last direct call on the Portfolio and its result
    race               \* two Portfolio handles loading one shared index

vars ==
    <<data, collection, portfolio_loaded, pc, url, content, jobs, emails, error,
      calls, store_op, race>>

NoError == Exc("", "")

\* The handles of the interleaved loading (two Portfolio objects, or two
\* EmailGenerators, over the same persisted collection and the same CSV).
Handles == {1, 2}

\* Per handle: where its load_portfolio call stands ("idle": not called,
\* "adding": count() read 0 and the loop is at `row`, "done", "raised").
\* interleaved: a handle took a step while the other was inside its loop;
\* both_empty: both handles read count() = 0 before either had inserted;
\* failed: some index call raised.
NoRace ==
    [h           |-> [x \in Handles |-> [pc |-> "idle", row |-> 1]],
     interleaved |-> FALSE,
     both_empty  |-> FALSE,
     failed      |-> FALSE]

NoStoreOp ==
    [op |-> "none", arg |-> EmptyList, ok |-> TRUE, val |-> <<>>, err |-> NoError,
     before |-> 0]

Init ==
    /\ data \in Datasets
    /\ collection = <<>>
    /\ portfolio_loaded = FALSE
    /\ pc = "idle"
    /\ url = <<>>
    /\ content = <<>>
    /\ jobs = <<>>
    /\ emails = <<>>
    /\ error = NoError
    /\ calls = <<>>
    /\ store_op = NoStoreOp
    /\ race = NoRace

\* ------------------------------------------------- EmailGenerator.process_url
\* generator.process_url(u) is called.
ProcessUrl(u) ==
    /\ pc = "idle"
    /\ pc' = "load_web_content"
    /\ url' = u
    /\ content' = <<>>
    /\ jobs' = <<>>
    /\ emails' = <<>>
    /\ error' = NoError
    /\ calls' = <<>>
    /\ store_op' = NoStoreOp
    /\ UNCHANGED <<race, data, collection, portfolio_loaded>>

\* content = self.load_web_content(url)
LoadWebContent ==
    /\ pc = "load_web_content"
    /\ \E lo \in LoaderOutcomes :
         LET r == load_web_content(url, lo)
         IN  /\ calls' = calls \o r.calls
             /\ IF r.ok
                THEN /\ content' = r.val
                     /\ pc' = "extract_jobs"
                     /\ UNCHANGED error
                ELSE /\ error' = r.err
                     /\ pc' = "raised"
                     /\ UNCHANGED content
    /\ UNCHANGED <<race, data, collection, portfolio_loaded, url, jobs, emails, store_op>>

\* jobs = self.llm.extract_jobs(content)
ExtractJobs ==
    /\ pc = "extract_jobs"
    /\ \E lo \in ExtractOutcomes :
         LET r == Logged("chain.extract_jobs", 0, content, extract_jobs(content, lo))
         IN  /\ calls' = calls \o r.calls
             /\ IF r.ok
                THEN /\ jobs' = r.val
                     /\ pc' = "check_jobs"
                     /\ UNCHANGED error
                ELSE /\ error' = r.err
                     /\ pc' = "raised"
                     /\ UNCHANGED jobs
    /\ UNCHANGED <<race, data, collection, portfolio_loaded, url, content, emails, store_op>>

\* process_url without its empty-list check.
CheckJobs_NoCheck ==
    /\ pc = "check_jobs"
    /\ pc' = "generate_emails"
    /\ UNCHANGED <<race, data, collection, portfolio_loaded, url, content, jobs, emails,
                   error, calls, store_op>>

\* if not jobs: raise ValueError(...)
CheckJobs ==
    /\ pc = "check_jobs"
    /\ IF jobs = <<>>
       THEN /\ error' = Exc("ValueError", "No job postings found at the provided URL")
            /\ pc' = "raised"
       ELSE /\ pc' = "generate_emails"
            /\ UNCHANGED error
    /\ UNCHANGED <<race, data, collection, portfolio_loaded, url, content, jobs, emails,
                   calls, store_op>>

\* generate_emails, up to its list comprehension: the empty-list check and
\* self._ensure_portfolio_loaded()
GenerateEmails ==
    /\ pc = "generate_emails"
    /\ IF jobs = <<>>
       THEN /\ error' = Exc("ValueError", "No jobs found to generate emails")
            /\ pc' = "raised"
            /\ UNCHANGED <<collection, portfolio_loaded, calls>>
       ELSE \E env \in LoadEnvs(data) :
              LET r == ensure_portfolio_loaded(portfolio_loaded, collection, data, env)
              IN  /\ calls' = calls \o r.calls
                  /\ collection' = r.coll
                  /\ portfolio_loaded' = r.loaded
                  /\ IF r.ok
                     THEN pc' = "generate_single_email" /\ UNCHANGED error
                     ELSE pc' = "raised" /\ error' = r.err
    /\ UNCHANGED <<race, data, url, content, jobs, emails, store_op>>

\* GenerateSingleEmail without the per-job try/except: a job that fails ends
\* the batch with the outputs produced so far.
GenerateSingleEmail_AbortOnFailure ==
    /\ pc = "generate_single_email"
    /\ LET idx == Len(emails) + 1
       IN  \E q_raises \in BOOLEAN, wo \in WriteOutcomes :
             LET r == generate_single_email(collection, jobs[idx], idx, q_raises, wo)
                 failed == r.val = <<>> \/ r.val[1] = "Error generating email: "
             IN  /\ emails' = IF failed THEN emails ELSE Append(emails, r.val)
                 /\ calls' = calls \o r.calls
                 /\ pc' = IF failed \/ idx = Len(jobs)
                          THEN "returned" ELSE "generate_single_email"
    /\ UNCHANGED <<race, data, collection, portfolio_loaded, url, content, jobs, error,
                   store_op>>

\* One element of the list comprehension: self._generate_single_email(job, idx)
\* for the next job; after the last job generate_emails and process_url return.
GenerateSingleEmail ==
    /\ pc = "generate_single_email"
    /\ LET idx == Len(emails) + 1
       IN  \E q_raises \in BOOLEAN, wo \in WriteOutcomes :
             LET r == generate_single_email(collection, jobs[idx], idx, q_raises, wo)
             IN  /\ emails' = Append(emails, r.val)
                 /\ calls' = calls \o r.calls
                 /\ pc' = IF idx = Len(jobs) THEN "returned" ELSE "generate_single_email"
    /\ UNCHANGED <<race, data, collection, portfolio_loaded, url, content, jobs, error,
                   store_op>>

\* No process_url invocation is on record.
ResetInvocation ==
    /\ pc' = "idle"
    /\ url' = <<>>
    /\ content' = <<>>
    /\ jobs' = <<>>
    /\ emails' = <<>>
    /\ error' = NoError

\* process_url_submission: the caller takes what process_url returned or
\* raised (render_emails / _handle_error); the generator is free again.
ProcessUrlSubmissionDone ==
    /\ pc \in {"returned", "raised"}
    /\ ResetInvocation
    /\ calls' = <<>>
    /\ UNCHANGED <<race, data, collection, portfolio_loaded, store_op>>

\* ------------------------------------------- direct calls on the Portfolio
\* A caller other than process_url uses the store between invocations;
\* `calls` then holds the calls of the last direct call.
StoreResult(op, arg, r) ==
    [op |-> op, arg |-> arg, ok |-> r.ok, val |-> r.val, err |-> r.err,
     before |-> Len(collection)]

\* portfolio.load_portfolio()
LoadPortfolio ==
    /\ pc = "idle"
    /\ \E env \in LoadEnvs(data) :
         LET r == load_portfolio(collection, data, env)
         IN  /\ collection' = r.coll
             /\ calls' = r.calls
             /\ store_op' = StoreResult("load", EmptyList, r)
    /\ ResetInvocation
    /\ UNCHANGED <<race, data, portfolio_loaded>>

QueryInputs ==
    JobSkills \cup { ListOf(<< <<>> >>), ListOf(<< <<>>, <<" ">> >>), StrOf(<<>>) }

\* portfolio.query_links(skills, n_results)
QueryLinks(skills, n_results) ==
    /\ pc = "idle"
    /\ \E q_raises \in BOOLEAN :
         LET r == query_links(collection, skills, n_results, 0, q_raises)
         IN  /\ calls' = r.calls
             /\ store_op' = StoreResult("query", skills, r)
    /\ ResetInvocation
    /\ UNCHANGED <<race, data, collection, portfolio_loaded>>

\* portfolio.clear_portfolio()
ClearPortfolio ==
    /\ pc = "idle"
    /\ \E raises \in BOOLEAN :
         LET r == clear_portfolio(collection, raises)
         IN  /\ collection' = r.coll
             /\ calls' = r.calls
             /\ store_op' = StoreResult("clear", EmptyList, r)
    /\ ResetInvocation
    /\ UNCHANGED <<race, data, portfolio_loaded>>

\* ----------------------------------------------------------- specification
Next ==
    \/ \E u \in Urls : ProcessUrl(u)
    \/ LoadWebContent
    \/ ExtractJobs
    \/ CheckJobs
    \/ GenerateEmails
    \/ GenerateSingleEmail
    \/ ProcessUrlSubmissionDone
    \/ LoadPortfolio
    \/ \E skills \in QueryInputs, n_results \in {1, DEFAULT_N_RESULTS} :
         QueryLinks(skills, n_results)
    \/ ClearPortfolio

Spec == Init /\ [][Next]_vars

\* ------------------------------------------------- interleaved loading
\* load_portfolio is not atomic: between its count() and each of its add()
\* calls another handle on the same collection can run.  The steps below
\* are load_portfolio's own, one index call each.

\* The count() guard without its test: the loop is entered whatever count()
\* returned.
load_portfolio_guard_NoTest(coll, outcome) ==
    IF outcome = "raise" THEN "raised" ELSE "adding"

\* load_portfolio up to its loop: where the call stands after count().
\* outcome: "ok", or which of the two count() calls raises.
load_portfolio_guard(coll, outcome) ==
    IF outcome = "raise" THEN "raised"
    ELSE IF Len(coll) > 0
    THEN (IF outcome = "raise2" THEN "raised" ELSE "done")
    ELSE "adding"

OtherAdding(h) == \E o \in Handles \ {h} : race.h[o].pc = "adding"

\* Handle h calls load_portfolio(): the count() guard.
RaceCount(h) ==
    /\ race.h[h].pc = "idle"
    /\ \E outcome \in {"ok", "raise", "raise2"} :
         LET next == load_portfolio_guard(collection, outcome)
         IN  race' = [race EXCEPT
                        !.h[h].pc     = next,
                        !.interleaved = @ \/ OtherAdding(h),
                        !.both_empty  = @ \/ (next = "adding" /\ OtherAdding(h)),
                        !.failed      = @ \/ next = "raised"]
    /\ UNCHANGED <<data, collection, portfolio_loaded, pc, url, content, jobs,
                   emails, error, calls, store_op>>

\* Handle h runs one iteration of the loop: _add_item_to_collection(row);
\* after the last row load_portfolio returns.
RaceAdd(h) ==
    /\ race.h[h].pc = "adding"
    /\ LET i == race.h[h].row
       IN  \E fails \in BOOLEAN :
             LET a == add_item_to_collection(collection, data[i], i, fails)
             IN  /\ collection' = a.coll
                 /\ race' = [race EXCEPT
                                !.h[h].row    = i + 1,
                                !.h[h].pc     = IF i = Len(data) THEN "done" ELSE "adding",
                                !.interleaved = @ \/ OtherAdding(h),
                                !.failed      = @ \/ (a.calls # <<>> /\ ~a.added)]
    /\ UNCHANGED <<data, portfolio_loaded, pc, url, content, jobs, emails, error,
                   calls, store_op>>

RaceNext == \E h \in Handles : RaceCount(h) \/ RaceAdd(h)

\* Two handles, one load_portfolio() call each, in any interleaving.
SpecRace == Init /\ [][RaceNext]_vars

\* ------------------------------------------------------- reading the log
HasCall(op) == \E k \in DOMAIN calls : calls[k].op = op

\* Positions of the calls of method or collaborator `op` made for job i.
CallsFor(op, i) == { k \in DOMAIN calls : calls[k].op = op /\ calls[k].idx = i }

IsPlaceholder(s) == Len(s) = 2 /\ s[1] = "Error generating email: "

\* process_url has ended, by returning or by raising.
Ended == pc \in {"returned", "raised"}

\* Output i is what _generate_single_email produces for jobs[i]: query_links
\* was called with that job's skills; if it raised, the output is the
\* placeholder; if not, write_mail was called next with that job and the
\* output is its text, or the placeholder if it raised.
OutputIsOfJob(i) ==
    \E k \in CallsFor("portfolio.query_links", i) :
        /\ calls[k].arg = JobGetSkills(jobs[i])
        /\ \/ calls[k].res = "raise" /\ IsPlaceholder(emails[i])
           \/ /\ calls[k].res = "return"
              /\ \E m \in CallsFor("chain.write_mail", i) :
                    /\ m > k
                    /\ calls[m].arg.job = jobs[i]
                    /\ IF calls[m].res = "return"
                       THEN emails[i] = calls[m].val
                       ELSE IsPlaceholder(emails[i])

\* The per-job calls appear in the log in job order.
JobOrderKept ==
    \A k, m \in DOMAIN calls :
        (k < m /\ calls[k].idx > 0 /\ calls[m].idx > 0) => calls[k].idx <= calls[m].idx

\* load_portfolio raised in this invocation.
LoadRaised ==
    \E k \in DOMAIN calls :
        calls[k].op = "portfolio.load_portfolio" /\ calls[k].res = "raise"

\* ------------------------------------------------------------------ claims
QueryRaised(i) ==
    \E k \in CallsFor("portfolio.query_links", i) : calls[k].res = "raise"

WriteRaised(i) ==
    \E k \in CallsFor("chain.write_mail", i) : calls[k].res = "raise"

\* C1 as stated: whenever fetch and extraction succeeded with a non-empty job
\* list, process_url returns, with exactly one output per job, output i being
\* that of job i.
C1_Original ==
    (Ended /\ jobs # <<>>) =>
        /\ pc = "returned"
        /\ Len(emails) = Len(jobs)
        /\ \A i \in 1..Len(jobs) : OutputIsOfJob(i)

\* C1 (amended): after a non-empty extraction process_url ends in one of two
\* ways.  If load_portfolio raised (the index count failed on the generator's
\* first use) it raises, with no job attempted.  Otherwise it returns, for
\* every pattern of query_links and write_mail failures, one output per job,
\* output i being that of job i, in job order.  No job is dropped while the
\* batch runs either.
C1_LengthAndOrder ==
    /\ (Ended /\ jobs # <<>>) =>
          IF LoadRaised
          THEN pc = "raised" /\ emails = <<>>
          ELSE /\ pc = "returned"
               /\ Len(emails) = Len(jobs)
               /\ \A i \in 1..Len(jobs) : OutputIsOfJob(i)
               /\ JobOrderKept
    /\ pc = "generate_single_email" =>
          /\ Len(emails) < Len(jobs)
          /\ \A i \in 1..Len(emails) : OutputIsOfJob(i)

C1_Witness ==
    /\ pc = "returned"
    /\ Len(jobs) >= 2
    /\ Len(emails) = Len(jobs)
    /\ IsPlaceholder(emails[1])
    /\ ~IsPlaceholder(emails[Len(emails)])
    /\ QueryRaised(1) \/ WriteRaised(1)

\* C2 as stated: write_mail is attempted for every job; output i is the
\* placeholder when write_mail raised for job i and the text write_mail
\* returned for job i otherwise.
C2_Original ==
    pc = "returned" =>
        \A i \in 1..Len(jobs) :
            /\ CallsFor("chain.write_mail", i) # {}
            /\ IF WriteRaised(i)
               THEN IsPlaceholder(emails[i])
               ELSE \E k \in CallsFor("chain.write_mail", i) : emails[i] = calls[k].val

\* C2 (amended): per-job isolation covers query_links as well as write_mail.
\* For every job reached, query_links is called once; it raises exactly when
\* the job's skills are missing, empty or not a list, and then write_mail is
\* not called and output i is the placeholder; otherwise write_mail is called
\* once and output i is the placeholder when it raised and exactly the text it
\* returned when it did not.  A failure on job i never stops the later jobs:
\* at return every job has been reached.
C2_PerJobIsolation ==
    pc \in {"generate_single_email", "returned"} =>
        /\ pc = "returned" => Len(emails) = Len(jobs)
        /\ \A i \in 1..Len(emails) :
              LET skills == JobGetSkills(jobs[i])
              IN  /\ Cardinality(CallsFor("portfolio.query_links", i)) = 1
                  /\ QueryRaised(i) <=> (skills.val = <<>> \/ skills.type # "list")
                  /\ IF QueryRaised(i)
                     THEN /\ CallsFor("chain.write_mail", i) = {}
                          /\ emails[i] =
                                <<"Error generating email: ", "Skills must be a non-empty list">>
                     ELSE /\ Cardinality(CallsFor("chain.write_mail", i)) = 1
                          /\ \A k \in CallsFor("chain.write_mail", i) :
                                IF calls[k].res = "raise"
                                THEN IsPlaceholder(emails[i])
                                ELSE emails[i] = calls[k].val

C2_Witness ==
    /\ pc = "returned"
    /\ Len(jobs) >= 2
    /\ WriteRaised(1)
    /\ IsPlaceholder(emails[1])
    /\ ~QueryRaised(2) /\ ~WriteRaised(2)
    /\ emails[2] \in { <<t>> : t \in EmailTexts }

\* Every string of the list is empty or whitespace-only (the empty list too).
OnlyBlank(skills) ==
    /\ skills.type = "list"
    /\ \A k \in DOMAIN skills.val : IsBlank(skills.val[k])

QueriedIndex == HasCall("collection.query")

\* C3 as stated: query_links with an empty list, or a list of blank strings
\* only, returns the empty sequence, raises nothing and does not query the
\* index.
C3_Original ==
    (store_op.op = "query" /\ OnlyBlank(store_op.arg)) =>
        /\ store_op.ok
        /\ store_op.val = <<>>
        /\ ~QueriedIndex

\* C3 (amended): query_links does not query the index in either case, but it
\* returns the empty sequence only for a non-empty list of blank strings; for
\* the empty list it raises ValueError("Skills must be a non-empty list").
C3_BlankSkills ==
    (store_op.op = "query" /\ OnlyBlank(store_op.arg)) =>
        /\ ~QueriedIndex
        /\ IF store_op.arg.val = <<>>
           THEN /\ ~store_op.ok
                /\ store_op.err = Exc("ValueError", "Skills must be a non-empty list")
           ELSE /\ store_op.ok
                /\ store_op.val = <<>>

C3_Witness ==
    /\ store_op.op = "query"
    /\ store_op.arg = ListOf(<< <<>>, <<" ">> >>)
    /\ store_op.ok
    /\ store_op.val = <<>>
    /\ Len(collection) > 0

\* A step that is a direct load_portfolio() call.
IsLoadStep == pc = "idle" /\ store_op'.op = "load"

C5_FetchNeverEmpty == pc = "extract_jobs" => content # <<>>

AddRaised ==
    \E k \in DOMAIN calls : calls[k].op = "collection.add" /\ calls[k].res = "raise"

\* The calls of the log that are inserts, and those that succeeded.
AddCalls == { k \in DOMAIN calls : calls[k].op = "collection.add" }

AddsDone == { k \in AddCalls : calls[k].res = "return" }

\* C6 as stated: when an insert fails during loading, load_portfolio raises,
\* and so does a process_url that was loading.
C6_Original ==
    AddRaised =>
        IF store_op.op = "load" THEN ~store_op.ok ELSE pc = "raised" /\ LoadRaised

\* C6 (amended): an insert error is caught in _add_item_to_collection, logged
\* and skipped: load_portfolio goes on to the remaining rows (every valid row
\* gets its insert attempt), keeps the records whose insert succeeded and
\* returns normally, so process_url continues.  load_portfolio raises only
\* when collection.count() raises, before any insert.
C6_InsertErrorSkipped ==
    /\ AddRaised =>
          /\ IF store_op.op = "load" THEN store_op.ok ELSE pc # "raised" /\ ~LoadRaised
          /\ Cardinality(AddCalls) = CountValid(data)
          /\ Len(collection) = Cardinality(AddsDone)
    /\ ((store_op.op = "load" /\ ~store_op.ok) \/ LoadRaised) =>
          /\ AddCalls = {}
          /\ calls[Len(calls)].op = "collection.count"
          /\ calls[Len(calls)].res = "raise"

\* process_url returned after a load in which one insert failed and another
\* succeeded.
C6_Witness ==
    /\ AddRaised
    /\ pc = "returned"
    /\ portfolio_loaded
    /\ Len(collection) = 1
    /\ CountValid(data) = 2

NotJsonAnswer ==
    \E k \in DOMAIN calls :
        calls[k].op = "llm.invoke" /\ calls[k].idx = 0 /\ calls[k].val = <<"invalid">>

NoStoreOrMailCall ==
    \A k \in DOMAIN calls :
        calls[k].op \notin
            { "portfolio.load_portfolio", "portfolio.query_links", "chain.write_mail",
              "collection.count", "collection.add", "collection.query" }

\* C7: when the LLM's extraction answer is not valid JSON, extract_jobs raises
\* OutputParserException, process_url raises it to its caller, and the
\* invocation makes no load_portfolio, query_links or write_mail call.
C7_ParseFailureAborts ==
    NotJsonAnswer =>
        /\ pc = "raised"
        /\ error = Exc("OutputParserException", "Context too big. Unable to parse jobs.")
        /\ jobs = <<>>
        /\ emails = <<>>
        /\ NoStoreOrMailCall

C7_Witness ==
    /\ NotJsonAnswer
    /\ pc = "raised"
    /\ error.type = "OutputParserException"
    /\ ~portfolio_loaded

ExtractedZero ==
    \E k \in DOMAIN calls :
        /\ calls[k].op = "chain.extract_jobs"
        /\ calls[k].res = "return"
        /\ calls[k].val = <<>>

\* C8: when extraction succeeds with zero jobs, process_url goes nowhere but
\* to its empty-list check and fails there with ValueError("No job postings
\* found at the provided URL"); it returns nothing, loads nothing and writes
\* no mail.
C8_NoJobsFound ==
    ExtractedZero =>
        /\ pc \in {"check_jobs", "raised"}
        /\ pc = "raised" =>
              error = Exc("ValueError", "No job postings found at the provided URL")
        /\ emails = <<>>
        /\ NoStoreOrMailCall

C8_Witness ==
    /\ ExtractedZero
    /\ pc = "raised"
    /\ error.type = "ValueError"
    /\ ~portfolio_loaded

\* C9: an index query that raises inside query_links (so with a non-blank
\* skill) makes query_links return the empty sequence; in process_url the
\* job's write_mail is then called with empty links and, when it returns, the
\* job's output is its text and not a placeholder.
C9_QueryFailureDegrades ==
    /\ \A k \in DOMAIN calls :
          (calls[k].op = "collection.query" /\ calls[k].res = "raise" /\ calls[k].idx > 0) =>
              LET i == calls[k].idx
              IN  /\ calls[k].arg # <<>>
                  /\ \A q \in CallsFor("portfolio.query_links", i) :
                        calls[q].res = "return" /\ calls[q].val = <<>>
                  /\ \E w \in CallsFor("chain.write_mail", i) :
                        /\ w > k
                        /\ calls[w].arg.links = <<>>
                        /\ calls[w].res = "return" =>
                              /\ emails[i] = calls[w].val
                              /\ ~IsPlaceholder(emails[i])
    /\ (store_op.op = "query" /\ \E k \in DOMAIN calls : calls[k].res = "raise") =>
          /\ store_op.ok
          /\ store_op.val = <<>>

C9_Witness ==
    /\ pc = "returned"
    /\ Len(collection) > 0
    /\ \E k \in DOMAIN calls :
          calls[k].op = "collection.query" /\ calls[k].res = "raise" /\ calls[k].idx = 1
    /\ emails[1] \in { <<t>> : t \in EmailTexts }

LoaderFailed ==
    \E k \in DOMAIN calls :
        /\ calls[k].op = "loader.load"
        /\ calls[k].res = "raise" \/ calls[k].val = <<>>

\* C10: a URL that is blank after trimming fails with ValueError before the
\* web loader is called; for a non-blank URL a loader that raises or returns
\* no document makes load_web_content fail with ConnectionError: it returns
\* nothing and never raises ValueError.
C10_FetchFailureClasses ==
    /\ (pc \notin {"idle", "load_web_content"} /\ IsBlank(url)) =>
          /\ pc = "raised"
          /\ error = Exc("ValueError", "URL cannot be empty")
          /\ calls = <<>>
    /\ LoaderFailed =>
          /\ ~IsBlank(url)
          /\ pc = "raised"
          /\ error.type = "ConnectionError"
          /\ content = <<>>
          /\ Len(calls) = 1

\* The loader returned no document for a non-blank URL.
C10_Witness ==
    /\ pc = "raised"
    /\ url = <<" ", "h">>
    /\ error = Exc("ConnectionError", "No content could be loaded from the URL")
    /\ \E k \in DOMAIN calls :
          calls[k].op = "loader.load" /\ calls[k].res = "return" /\ calls[k].val = <<>>

LoaderCalls == { k \in DOMAIN calls : calls[k].op = "loader.load" }

\* The LLM calls made for the extraction prompt.
ExtractionCalls == CallsFor("llm.invoke", 0)

\* C11 as stated, for an invocation that ran to its return: having extracted
\* N >= 1 jobs it has made exactly one web-loader call, exactly one LLM
\* extraction call and exactly one LLM write_mail call per job, in job order,
\* whatever failed and whatever skills the jobs carry.
C11_Original ==
    (pc = "returned" /\ jobs # <<>>) =>
        /\ Cardinality(LoaderCalls) = 1
        /\ Cardinality(ExtractionCalls) = 1
        /\ \A i \in 1..Len(jobs) :
              /\ Cardinality(CallsFor("chain.write_mail", i)) = 1
              /\ Cardinality(CallsFor("llm.invoke", i)) = 1
        /\ JobOrderKept

\* C11 (amended): an invocation that extracted N >= 1 jobs makes exactly one
\* web-loader call and exactly one LLM extraction call, and no call is ever
\* repeated: per job at most one query_links, one index query, one write_mail
\* and one LLM call, in job order.  When it returns, write_mail (and its LLM
\* call) was made exactly once for every job whose query_links returned and
\* not at all for a job whose skills are missing, empty or not a list; when
\* load_portfolio raised, no job was attempted.
C11_CallCounts ==
    jobs # <<>> =>
        /\ Cardinality(LoaderCalls) = 1
        /\ Cardinality(ExtractionCalls) = 1
        /\ Cardinality(CallsFor("chain.extract_jobs", 0)) = 1
        /\ JobOrderKept
        /\ \A k \in DOMAIN calls : calls[k].idx <= Len(emails)
        /\ \A i \in 1..Len(emails) :
              LET q == CallsFor("portfolio.query_links", i)
                  w == CallsFor("chain.write_mail", i)
              IN  /\ Cardinality(q) = 1
                  /\ Cardinality(CallsFor("collection.query", i)) <= 1
                  /\ Cardinality(w) = IF QueryRaised(i) THEN 0 ELSE 1
                  /\ Cardinality(CallsFor("llm.invoke", i)) = Cardinality(w)
        /\ Ended => IF LoadRaised THEN emails = <<>> ELSE Len(emails) = Len(jobs)

\* A batch returned in which write_mail raised for job 1 and was not called
\* again, and was never called for job 2, whose query_links raised.
C11_Witness ==
    /\ pc = "returned"
    /\ Len(jobs) >= 2
    /\ WriteRaised(1)
    /\ Cardinality(CallsFor("chain.write_mail", 1)) = 1
    /\ QueryRaised(2)
    /\ CallsFor("chain.write_mail", 2) = {}

\* Both load_portfolio() calls have ended.
RaceEnded == \A h \in Handles : race.h[h].pc \in {"done", "raised"}

\* C12, its universal half as stated: when the two load() calls run one
\* after the other, the index ends with as many records as there are valid
\* portfolio entries.
C12_Original ==
    (RaceEnded /\ ~race.interleaved) => Len(collection) = CountValid(data)

\* C12 (amended): load() is not safe under interleaving.  The index holds
\* more records than there are valid entries only if both handles read
\* count() = 0 before either had inserted, and when they did and no index
\* call failed it ends with every valid entry twice.  A sequential ordering
\* of the two load() calls never ends with more records than valid entries,
\* and ends with exactly that many when no index call failed.
C12_LoadRace ==
    /\ Len(collection) > CountValid(data) => race.both_empty
    /\ (RaceEnded /\ race.both_empty /\ ~race.failed) =>
          Len(collection) = 2 * CountValid(data)
    /\ (RaceEnded /\ ~race.interleaved) =>
          /\ Len(collection) <= CountValid(data)
          /\ ~race.failed => Len(collection) = CountValid(data)

\* Both handles read count() = 0 on the empty index, both inserted, and the
\* index ended with duplicate records.
C12_Witness ==
    /\ RaceEnded
    /\ race.both_empty
    /\ CountValid(data) >= 1
    /\ Len(collection) > CountValid(data)
    /\ \E j, k \in DOMAIN collection : j # k /\ collection[j] = collection[k]

\* The orchestrator's flag and the store agree: the flag is up only while
\* the index holds a record.
FlagAgrees == portfolio_loaded => Len(collection) > 0

\* C13: with a dataset that has a valid entry, clear_portfolio() returns the
\* store to Unloaded and the orchestrator's loaded flag does not disagree
\* with it: after a clear the flag is down, so that the next process_url
\* loads again before its per-job queries.
C13_FlagAgreesAfterClear ==
    (store_op.op = "clear" /\ store_op.ok /\ CountValid(data) >= 1) => FlagAgrees

\* A process_url invocation returned that skipped load_portfolio because the
\* flag was up, and whose per-job query ran against the empty index.
C13_StaleQuery ==
    /\ pc = "returned"
    /\ CountValid(data) >= 1
    /\ portfolio_loaded
    /\ Len(collection) = 0
    /\ ~HasCall("portfolio.load_portfolio")
    /\ \E k \in DOMAIN calls :
          /\ calls[k].op = "collection.query"
          /\ calls[k].idx >= 1
          /\ calls[k].res = "return"

====
